---- MODULE Spec2Model ----
(***************************************************************************)
(* Multiplayer Snake of examples/snake.py: the game tick that runs inside  *)
(* the store as one Lua EVAL (TICK_SCRIPT), the tick lock with its expiry, *)
(* and the passage of time between calls.                                  *)
(*                                                                         *)
(* The store serialises EVALs, so one call of TICK_SCRIPT is one action.   *)
(* math.random is a nondeterministic draw from its range.                  *)
(* cjson.encode / cjson.decode carry the state table between calls; every  *)
(* value the script stores (integral numbers, strings, booleans, arrays    *)
(* that are never empty when encoded) is read back as the same Lua value.  *)
(***************************************************************************)
EXTENDS Integers, Sequences, FiniteSets, TLC

\* ---------------------------------------------------------------- bounds
\* Real time passes in steps of TimeStep milliseconds.
TimeStep == 50
\* A run makes at most MaxCalls calls of the script.
MaxCalls == 3
\* The Life universes seeded with a block have sides from 5 to MaxSide.
MaxSide == 6
\* A run of the fire client draws at most MaxFrames frames.
MaxFrames == 2

\* ------------------------------------------------------ program constants
TickMs == 100
PruneAfter == 50
\* The smallest board side for which math.random(3, W - 3) has a value to draw.
MinBoard == 6
\* The intensity of the fuel row.
MaxIntensity == 36

\* Board size every caller passes as ARGV[2], ARGV[3].
BoardW == MinBoard
BoardH == MinBoard

Names == {"a", "b"}
\* "X" stands for any token that is not a key of the opp table.
Tokens == {"UP", "LEFT", "RIGHT", "X"}
Flags == {"0", "1"}
\* The value of opp[pdir] when pdir is no key of the table.
Nil == "nil"

VARIABLES
    game,      \* value of KEYS[1]: NoGame when the key is absent, else the state table
    lock,      \* remaining time to live of KEYS[2] in ms; 0 when the key is absent
    sinceAdv,  \* real time since the last call that ran the world step (capped at TickMs)
    last,      \* the last call: who called, which branch ran, the direction token
               \* when the script read it, whether it took the lock, the caller's
               \* entry after lines 48-75 and the food after lines 40-46
    ncalls,    \* number of calls made so far
    calls,     \* per player: what its previous call returned and how long ago
    pc,        \* per player: where its client is (in the loop, between the GET and
               \* the DELETE of its cleanup, gone)
    life,      \* the key life:grid and what the last call of LIFE_SCRIPT loaded and returned
    fire       \* the key doom:fire and what the last call of FIRE_SCRIPT loaded and wrote

vars == <<game, lock, sinceAdv, last, ncalls, calls, pc, life, fire>>

\* Every client is in its loop.
Playing == [n \in Names |-> "loop"]

\* A grid key that does not exist (no byte is negative), and a call that was
\* never made.
Absent == <<-1>>
NoLife == [raw |-> Absent, w |-> 0, h |-> 0, cur |-> <<>>, s |-> <<>>, pop |-> 0]
NoFire == [raw |-> Absent, w |-> 0, h |-> 0, cur |-> <<>>, log |-> <<>>, frames |-> 0]

NoGame == [absent |-> TRUE]

Cell(x, y) == [x |-> x, y |-> y]

\* math.random(1,W-2), math.random(1,H-2)
FoodCells(W, H) == {Cell(x, y) : x \in 1..(W - 2), y \in 1..(H - 2)}

\* math.random(3,W-3), math.random(3,H-3)
SpawnCells(W, H) == {Cell(x, y) : x \in 3..(W - 3), y \in 3..(H - 3)}

SeedState(W, H, f) == [w |-> W, h |-> H, food |-> f, players |-> <<>>, tick |-> 0]

SpawnBody(s) == <<Cell(s.x, s.y), Cell(s.x - 1, s.y), Cell(s.x - 2, s.y)>>

Opp(d) ==
    CASE d = "UP" -> "DOWN"
      [] d = "DOWN" -> "UP"
      [] d = "LEFT" -> "RIGHT"
      [] d = "RIGHT" -> "LEFT"
      [] OTHER -> Nil

NewDirAlways(cur, pdir) == pdir

\* if opp[pdir] ~= p.dir then p.dir = pdir end
NewDir(cur, pdir) == IF Opp(pdir) # cur THEN pdir ELSE cur

RespawnKeepsBody(p, s) == [p EXCEPT !.dir = "RIGHT", !.alive = TRUE]

RespawnPlayer(p, s) == [p EXCEPT !.body = SpawnBody(s), !.dir = "RIGHT", !.alive = TRUE]

\* Body of the loop over state.players for the entry whose name is pname.
TouchPlayer(p, pdir, respawn, tick, s) ==
    LET q == [p EXCEPT !.last_seen = tick] IN
    IF q.alive THEN [q EXCEPT !.dir = NewDir(q.dir, pdir)]
    ELSE IF respawn = "1" THEN RespawnPlayer(q, s)
    ELSE q

NewPlayer(pname, pdir, tick, s) ==
    [name |-> pname, body |-> SpawnBody(s), dir |-> pdir, score |-> 0,
     alive |-> TRUE, last_seen |-> tick]

\* Index of the first entry named pname, 0 when there is none.
FindPlayer(players, pname) ==
    LET hits == {i \in 1..Len(players) : players[i].name = pname} IN
    IF hits = {} THEN 0 ELSE CHOOSE i \in hits : \A j \in hits : i <= j

\* The call draws a spawn point when it joins the player or respawns it.
NeedsSpawn(players, pname, respawn) ==
    LET i == FindPlayer(players, pname) IN
    \/ i = 0
    \/ (~players[i].alive /\ respawn = "1")

\* Lines 48-75: update this player's info, or join it.
UpdatePlayers(players, pname, pdir, respawn, tick, s) ==
    LET i == FindPlayer(players, pname) IN
    IF i = 0 THEN Append(players, NewPlayer(pname, pdir, tick, s))
    ELSE [players EXCEPT ![i] = TouchPlayer(players[i], pdir, respawn, tick, s)]

ShouldTickAlways(l) == TRUE

\* redis.call('EXISTS', tick_lock) == 0
ShouldTick(l) == l = 0

PruneLate(players, tick) ==
    SelectSeq(players, LAMBDA p : tick - p.last_seen <= PruneAfter)

\* Lines 83-89: keep the players seen less than 50 ticks ago.
Prune(players, tick) ==
    SelectSeq(players, LAMBDA p : tick - p.last_seen < PruneAfter)

NextCellWrongAxis(hd, dir) ==
    CASE dir = "UP" -> Cell(hd.x, hd.y + 1)
      [] dir = "DOWN" -> Cell(hd.x, hd.y - 1)
      [] dir = "LEFT" -> Cell(hd.x - 1, hd.y)
      [] dir = "RIGHT" -> Cell(hd.x + 1, hd.y)
      [] OTHER -> hd

\* Lines 94-99: the next head cell; no branch matches an unknown direction.
NextCell(hd, dir) ==
    CASE dir = "UP" -> Cell(hd.x, hd.y - 1)
      [] dir = "DOWN" -> Cell(hd.x, hd.y + 1)
      [] dir = "LEFT" -> Cell(hd.x - 1, hd.y)
      [] dir = "RIGHT" -> Cell(hd.x + 1, hd.y)
      [] OTHER -> hd

OutsideNever(c, W, H) == FALSE

\* nx < 0 or nx >= W or ny < 0 or ny >= H
Outside(c, W, H) == c.x < 0 \/ c.x >= W \/ c.y < 0 \/ c.y >= H

\* for k = 1, #p.body - 1: the body without its last segment
HitsSelf(body, c) == \E k \in 1..(Len(body) - 1) : body[k] = c

\* Lines 94-110: does the player die on this move?
DiesMoving(p, W, H) ==
    LET n == NextCell(p.body[1], p.dir) IN
    Outside(n, W, H) \/ HitsSelf(p.body, n)

DropLast(s) == SubSeq(s, 1, Len(s) - 1)

GrowNoScore(p, n) == [p EXCEPT !.body = <<n>> \o p.body]

\* Lines 113-116: the new head is on the food.
Grow(p, n) == [p EXCEPT !.body = <<n>> \o p.body, !.score = p.score + 1]

SlideKeepsTail(p, n) == [p EXCEPT !.body = <<n>> \o p.body]

\* Lines 113, 118: the new head is not on the food.
Slide(p, n) == [p EXCEPT !.body = <<n>> \o DropLast(p.body)]

RECURSIVE MoveFrom(_, _, _, _, _)
\* Lines 92-122: the players from index i on move in list order; the result is
\* the set of outcomes over the draws of the relocated food.
MoveFrom(i, players, food, W, H) ==
    IF i > Len(players) THEN {[players |-> players, food |-> food]}
    ELSE
        LET p == players[i]
            n == NextCell(p.body[1], p.dir)
        IN  IF ~p.alive THEN MoveFrom(i + 1, players, food, W, H)
            ELSE IF DiesMoving(p, W, H)
            THEN MoveFrom(i + 1, [players EXCEPT ![i].alive = FALSE], food, W, H)
            ELSE IF n = food
            THEN UNION {MoveFrom(i + 1, [players EXCEPT ![i] = Grow(p, n)], f, W, H) :
                          f \in FoodCells(W, H)}
            ELSE MoveFrom(i + 1, [players EXCEPT ![i] = Slide(p, n)], food, W, H)

OnBody(c, body) == \E k \in 1..Len(body) : body[k] = c

HitNoCredit(players, i, j) == [players EXCEPT ![i].alive = FALSE]

HitAlwaysCredit(players, i, j) ==
    [players EXCEPT ![i].alive = FALSE, ![j].score = players[j].score + 1]

\* Lines 132-133: p1 dies on p2's body, p2 scores when it is alive at that moment.
Hit(players, i, j) ==
    LET dead == [players EXCEPT ![i].alive = FALSE] IN
    IF dead[j].alive THEN [dead EXCEPT ![j].score = dead[j].score + 1] ELSE dead

RECURSIVE CollideWith(_, _, _)
\* Lines 127-138: the head of player i against every other player j, in list order.
CollideWith(players, i, j) ==
    IF j > Len(players) THEN players
    ELSE IF i # j /\ OnBody(players[i].body[1], players[j].body)
    THEN CollideWith(Hit(players, i, j), i, j + 1)
    ELSE CollideWith(players, i, j + 1)

RECURSIVE CollideFrom(_, _)
\* Lines 125-140: every player that is alive when its turn comes.
CollideFrom(players, i) ==
    IF i > Len(players) THEN players
    ELSE IF players[i].alive THEN CollideFrom(CollideWith(players, i, 1), i + 1)
    ELSE CollideFrom(players, i + 1)

Collide(players) == CollideFrom(players, 1)

\* state.tick = state.tick + 1
TickUp(t) == t + 1

\* Lines 82-142: one world step of the state st (after the player update); the
\* set of outcomes over the food draws.
WorldSteps(st, W, H) ==
    {[st EXCEPT !.players = Collide(m.players), !.food = m.food,
                !.tick = TickUp(st.tick)] :
       m \in MoveFrom(1, Prune(st.players, st.tick), st.food, W, H)}

\* ------------------------------------------------------------ the store
Min(a, b) == IF a < b THEN a ELSE b
Max(a, b) == IF a > b THEN a ELSE b

LockShort == TimeStep

\* redis.call('SET', tick_lock, '1', 'PX', tick_ms): the key lives tick_ms ms.
LockTtl == TickMs

\* Lines 40-46: the stored state, or a seeded one with a drawn food cell.
Loaded(g, W, H) ==
    IF g = NoGame THEN {SeedState(W, H, f) : f \in FoodCells(W, H)} ELSE {g}

\* Which branch of lines 49-75 the call takes for pname.
Branch(players, pname, pdir, respawn) ==
    LET i == FindPlayer(players, pname) IN
    IF i = 0 THEN "join"
    ELSE IF players[i].alive
         THEN (IF NewDir(players[i].dir, pdir) = pdir THEN "turn" ELSE "refuse")
    ELSE IF respawn = "1" THEN "respawn"
    ELSE "seen"

\* One EVAL of TICK_SCRIPT on the stored state g and the lock l, with
\* ARGV = (tick_ms, W, H, pname, pdir, respawn): the set of its outcomes, each
\* the state it stores and returns, and what happened on the way.
EvalResults(g, l, W, H, pname, pdir, respawn) ==
    UNION {
      UNION {
        LET ps == UpdatePlayers(st0.players, pname, pdir, respawn, st0.tick, s)
            upd == [st0 EXCEPT !.players = ps]
            did == Branch(st0.players, pname, pdir, respawn)
            rec == [name |-> pname,
                    did |-> did,
                    token |-> IF did \in {"join", "turn", "refuse"} THEN pdir ELSE "",
                    me |-> ps[FindPlayer(ps, pname)],
                    food |-> st0.food]
        IN  IF ShouldTick(l)
            THEN {[game |-> out, call |-> rec @@ [advanced |-> TRUE]] :
                     out \in WorldSteps(upd, W, H)}
            ELSE {[game |-> upd, call |-> rec @@ [advanced |-> FALSE]]} :
        s \in (IF NeedsSpawn(st0.players, pname, respawn)
               THEN SpawnCells(W, H) ELSE {Cell(0, 0)})} :
      st0 \in Loaded(g, W, H)}

NoPlayer == [name |-> "", body |-> <<>>, dir |-> "", score |-> 0, alive |-> FALSE,
             last_seen |-> 0]

NoCall == [name |-> "", did |-> "", token |-> "", advanced |-> FALSE, me |-> NoPlayer,
           food |-> Cell(0, 0)]

\* Ages are counted up to here.
AgeCap == TickMs + TimeStep

NoHistory == [n \in Names |-> [ret |-> NoGame, age |-> 0, gap |-> 0]]

\* What a caller sees of the returned state: the food, the tick, its own entry.
Seen(g, pname) ==
    [food |-> g.food, tick |-> g.tick, me |-> g.players[FindPlayer(g.players, pname)]]

\* The script runs once; the store keeps what it SET.
Eval(W, H, pname, pdir, respawn) ==
    \E r \in EvalResults(game, lock, W, H, pname, pdir, respawn) :
        /\ game' = r.game
        /\ lock' = IF r.call.advanced THEN LockTtl ELSE lock
        /\ sinceAdv' = IF r.call.advanced THEN 0 ELSE sinceAdv
        /\ last' = r.call
        /\ UNCHANGED <<pc, life, fire>>

\* TimeStep ms pass: the lock key comes closer to its expiry.
Pass ==
    /\ lock' = Max(0, lock - TimeStep)
    /\ sinceAdv' = Min(TickMs, sinceAdv + TimeStep)
    /\ UNCHANGED <<game, last, ncalls, pc, life, fire>>

\* ------------------------------------------------- Spec: any callers, any calls
Init ==
    /\ game = NoGame
    /\ lock = 0
    /\ sinceAdv = TickMs
    /\ last = NoCall
    /\ ncalls = 0
    /\ calls = NoHistory
    /\ pc = Playing
    /\ life = NoLife
    /\ fire = NoFire

Tick(pname, pdir, respawn) ==
    /\ ncalls < MaxCalls
    /\ ncalls' = ncalls + 1
    /\ Eval(BoardW, BoardH, pname, pdir, respawn)
    /\ UNCHANGED calls

Elapse ==
    /\ lock > 0 \/ sinceAdv < TickMs
    /\ Pass
    /\ UNCHANGED calls

Next ==
    \/ \E n \in Names, d \in Tokens, r \in Flags : Tick(n, d, r)
    \/ Elapse

Spec == Init /\ [][Next]_vars

\* The previous calls grow older by TimeStep ms, counted up to cap.
Aged(cap) ==
    [n \in Names |->
        IF calls[n].ret = NoGame THEN calls[n]
        ELSE [calls[n] EXCEPT !.age = Min(cap, calls[n].age + TimeStep)]]

\* --------------------------- SpecPair: the same calls, each caller's previous
\* return and its age kept
PairTokens == {"UP", "LEFT"}

PairTick(pname, pdir, respawn) ==
    /\ ncalls < MaxCalls
    /\ ncalls' = ncalls + 1
    /\ Eval(BoardW, BoardH, pname, pdir, respawn)
    /\ calls' = [calls EXCEPT ![pname] = [ret |-> Seen(game', pname), age |-> 0,
                                          gap |-> 0]]

PairElapse ==
    /\ \/ lock > 0
       \/ sinceAdv < TickMs
       \/ \E n \in Names : calls[n].ret # NoGame /\ calls[n].age < TickMs
    /\ Pass
    /\ calls' = Aged(TickMs)

NextPair ==
    \/ \E n \in Names, d \in PairTokens, r \in Flags : PairTick(n, d, r)
    \/ PairElapse

SpecPair == Init /\ [][NextPair]_vars

\* ------------------- SpecScenario: one player on a 10 x 10 board, always RIGHT
ScenarioBoard == [w |-> 10, h |-> 10]

ScenarioTick ==
    /\ ncalls < MaxCalls
    /\ ncalls' = ncalls + 1
    /\ Eval(ScenarioBoard.w, ScenarioBoard.h, "a", "RIGHT", "0")
    /\ calls' = [calls EXCEPT !["a"] = [ret |-> Seen(game', "a"), age |-> 0,
                                        gap |-> calls["a"].age]]

ScenarioElapse ==
    /\ lock > 0 \/ sinceAdv < TickMs \/ (calls["a"].ret # NoGame /\ calls["a"].age < AgeCap)
    /\ Pass
    /\ calls' = Aged(AgeCap)

NextScenario == ScenarioTick \/ ScenarioElapse

SpecScenario == Init /\ [][NextScenario]_vars

\* ------------- SpecPrune: the game 49 ticks after a player was last seen
\* The states the script can store for the stored states gs, called with the
\* lock's time to live l.
Replay(gs, l, pname, pdir, respawn) ==
    UNION {{r.game : r \in EvalResults(g, l, BoardW, BoardH, pname, pdir, respawn)} :
             g \in gs}

RECURSIVE Repeat(_, _, _, _, _, _)
\* k such calls in a row.
Repeat(gs, l, pname, pdir, respawn, k) ==
    IF k = 0 THEN gs
    ELSE Repeat(Replay(gs, l, pname, pdir, respawn), l, pname, pdir, respawn, k - 1)

\* "a" joins on the fresh store (tick 1 after its call) and is not seen again;
\* "b" joins inside that window and then calls once per interval, each call
\* running the world step, until the tick counter is PruneAfter - 1.
LongAgo ==
    UNION {Repeat(Replay(Replay({NoGame}, 0, "a", d, "0"), TickMs, "b", "X", "0"),
                  0, "b", "X", "0", PruneAfter - 2) : d \in {"RIGHT", "X"}}

InitPrune ==
    /\ game \in LongAgo
    /\ lock = 0
    /\ sinceAdv = TickMs
    /\ last = NoCall
    /\ ncalls = 0
    /\ calls = NoHistory
    /\ pc = Playing
    /\ life = NoLife
    /\ fire = NoFire

PruneTick(pname, respawn) ==
    /\ ncalls < MaxCalls
    /\ ncalls' = ncalls + 1
    /\ Eval(BoardW, BoardH, pname, "UP", respawn)
    /\ UNCHANGED calls

NextPrune ==
    \/ \E n \in Names, r \in Flags : PruneTick(n, r)
    \/ Elapse

SpecPrune == InitPrune /\ [][NextPrune]_vars

\* ------------------------------------------------------------- the claims
\* A step of the model is a call of the script exactly when ncalls grows; the
\* state before the call is the unprimed one, last' describes the call.
IsCall == ncalls' = ncalls + 1

PrePlayers == IF game = NoGame THEN <<>> ELSE game.players
PreTick == IF game = NoGame THEN 0 ELSE game.tick

Has(players, n) == \E i \in 1..Len(players) : players[i].name = n
Entry(players, n) == players[CHOOSE i \in 1..Len(players) : players[i].name = n]

\* The call ran the world step: the tick counter moved.
Stepped == game'.tick # PreTick

\* The call changed nothing but its caller's entry.
MetadataOnly ==
    /\ game'.tick = PreTick
    /\ game'.food = last'.food
    /\ game # NoGame => game'.food = game.food
    /\ Len(game'.players) = Len(PrePlayers) + (IF Has(PrePlayers, last'.name) THEN 0 ELSE 1)
    /\ \A i \in 1..Len(game'.players) :
          IF i <= Len(PrePlayers) /\ PrePlayers[i].name # last'.name
          THEN game'.players[i] = PrePlayers[i]
          ELSE game'.players[i].name = last'.name

\* C1: a call runs the world step only when at least the tick interval has
\* passed since the previous world step, so at most one call per expiry window
\* of the tick lock steps the world; every other call leaves the tick, the food
\* and every entry but its caller's as they were.
C1_OneStepPerWindow ==
    [][IsCall => /\ Stepped => sinceAdv >= TickMs
                 /\ ~Stepped => MetadataOnly]_vars

\* C1 witness: two world steps were taken, and the second player then called
\* inside the window of the second step without stepping the world.
C1_Witness ==
    /\ game # NoGame
    /\ game.tick = 2
    /\ ~last.advanced
    /\ last.name = "b"
    /\ sinceAdv < TickMs
    /\ Len(game.players) = 2

\* The caller's previous call, when it made one.
Before == calls[last'.name]

\* The caller's return of this call.
Now == calls'[last'.name].ret

\* C2 as claimed: two calls of a player less than the tick interval apart
\* return the same food, the same tick and the same body of that player.
C2_AsClaimed ==
    [][IsCall /\ Before.ret # NoGame /\ Before.age < TickMs
         => /\ Now.food = Before.ret.food
            /\ Now.tick = Before.ret.tick
            /\ Now.me.body = Before.ret.me.body]_vars

\* C2 amended: two calls of a player inside one window of the tick lock (the
\* first at or after the call that last stepped the world, the second less
\* than the tick interval after that step) return the same food, the same
\* tick, and the same body, score and alive flag of that player (its direction
\* and its last_seen may differ), unless the second call respawns the player.
C2_SameWindow ==
    [][IsCall /\ Before.ret # NoGame /\ Before.age <= sinceAdv /\ sinceAdv < TickMs
              /\ last'.did # "respawn"
         => /\ Now.food = Before.ret.food
            /\ Now.tick = Before.ret.tick
            /\ [Now.me EXCEPT !.dir = "", !.last_seen = 0]
                  = [Before.ret.me EXCEPT !.dir = "", !.last_seen = 0]]_vars

\* C2 witness: with two players in the game, a player that had moved up called
\* again inside the window, 50 ms after the world step, and turned left.
C2_Witness ==
    /\ last.name = "a"
    /\ ~last.advanced
    /\ last.did = "turn"
    /\ sinceAdv = TimeStep
    /\ calls["a"].age = 0
    /\ calls["a"].ret.me.dir = "LEFT"
    /\ calls["a"].ret.me.body[1].y < calls["a"].ret.me.body[3].y
    /\ Len(game.players) = 2

\* The players as they stand when the world step starts: the stored entries,
\* the caller's replaced by (or, for a new player, followed by) its entry after
\* the script's player update.
StepPlayers ==
    IF Has(PrePlayers, last'.name)
    THEN [i \in 1..Len(PrePlayers) |->
             IF PrePlayers[i].name = last'.name THEN last'.me ELSE PrePlayers[i]]
    ELSE Append(PrePlayers, last'.me)

\* Seen less than 50 ticks ago when the world step starts.
SeenLately(p) == PreTick - p.last_seen < 50

\* The cell one step from c in direction d; a token that is no direction
\* leads nowhere.
Ahead(c, d) ==
    CASE d = "UP" -> [x |-> c.x, y |-> c.y - 1]
      [] d = "DOWN" -> [x |-> c.x, y |-> c.y + 1]
      [] d = "LEFT" -> [x |-> c.x - 1, y |-> c.y]
      [] d = "RIGHT" -> [x |-> c.x + 1, y |-> c.y]
      [] OTHER -> c

OffBoard(c, W, H) == ~(c.x \in 0..(W - 1) /\ c.y \in 0..(H - 1))

\* c is a segment of the body other than its tail.
OnOwnBody(c, body) == \E k \in 1..(Len(body) - 1) : body[k] = c

\* q is p moved one cell along its direction: a new head in front, the others
\* following (the tail staying when the body grew).
MovedOne(p, q) ==
    /\ q.body[1] = Ahead(p.body[1], p.dir)
    /\ q.body[1] # p.body[1]
    /\ \/ q.body = <<q.body[1]>> \o SubSeq(p.body, 1, Len(p.body) - 1)
       \/ q.body = <<q.body[1]>> \o p.body

\* C3 as claimed: a call made when the tick interval has passed since the last
\* world step raises the tick by one and moves every alive player one cell
\* along its direction.
C3_AsClaimed ==
    [][IsCall /\ PreTick >= 1 /\ sinceAdv >= TickMs
         => /\ game'.tick = PreTick + 1
            /\ \A i \in 1..Len(StepPlayers) :
                  StepPlayers[i].alive
                     => /\ Has(game'.players, StepPlayers[i].name)
                        /\ MovedOne(StepPlayers[i],
                                    Entry(game'.players, StepPlayers[i].name))]_vars

\* C3 amended: such a call raises the tick by one, and every player that is
\* alive and seen lately when the step starts moves one cell along its
\* direction, unless that cell is off the board or on its own body (the tail
\* excepted; a direction that is none of the four leads to the head cell
\* itself): then the player is marked dead and its body stays.
C3_StepMoves ==
    [][IsCall /\ sinceAdv >= TickMs
         => /\ game'.tick = PreTick + 1
            /\ \A i \in 1..Len(StepPlayers) :
                  LET p == StepPlayers[i] IN
                  p.alive /\ SeenLately(p)
                     => /\ Has(game'.players, p.name)
                        /\ LET q == Entry(game'.players, p.name)
                               n == Ahead(p.body[1], p.dir)
                           IN  IF OffBoard(n, BoardW, BoardH) \/ OnOwnBody(n, p.body)
                               THEN ~q.alive /\ q.body = p.body
                               ELSE MovedOne(p, q)]_vars

\* C3 witness: the second world step has run with two players in the game,
\* and both are alive after it, each moved by it.
C3_Witness ==
    /\ game # NoGame
    /\ last.advanced
    /\ game.tick = 2
    /\ Len(game.players) = 2
    /\ \A i \in 1..2 : game.players[i].alive /\ game.players[i].last_seen <= 1
    /\ game.players[1].body[1] # game.players[2].body[1]

\* C4 as claimed: on the fresh 10 x 10 board the joining call leaves tick 0 and
\* a body of 3 cells; the second call, 150 ms later, makes the tick 1, moves the
\* head one cell to the right and keeps the 3 cells.
C4_AsClaimed ==
    [][IsCall
         => /\ ncalls = 0 => game'.tick = 0 /\ Len(game'.players[1].body) = 3
            /\ ncalls = 1 /\ calls["a"].age >= AgeCap
                 => /\ game'.tick = 1
                    /\ game'.players[1].body[1].x = game.players[1].body[1].x + 1
                    /\ game'.players[1].body[1].y = game.players[1].body[1].y
                    /\ Len(game'.players[1].body) = 3]_vars

\* C4 amended: the joining call finds no tick lock and steps the world itself:
\* it leaves tick 1, the head one cell to the right of the spawn point and a
\* body of 3 cells (4 when that cell held the food); the second call, 150 ms
\* later, makes the tick 2, moves the head one cell to the right and keeps the
\* length of the body (one more when the head comes upon the food).
C4_Scenario ==
    [][IsCall
         => /\ ncalls = 0
                 => /\ game'.tick = 1
                    /\ game'.players[1].alive
                    /\ game'.players[1].body[1].x = last'.me.body[1].x + 1
                    /\ game'.players[1].body[1].y = last'.me.body[1].y
                    /\ Len(last'.me.body) = 3
                    /\ Len(game'.players[1].body) =
                          (IF game'.players[1].body[1] = last'.food THEN 4 ELSE 3)
            /\ ncalls = 1 /\ calls["a"].age >= AgeCap
                 => /\ game'.tick = 2
                    /\ game'.players[1].alive
                    /\ game'.players[1].body[1].x = game.players[1].body[1].x + 1
                    /\ game'.players[1].body[1].y = game.players[1].body[1].y
                    /\ Len(game'.players[1].body) = Len(game.players[1].body) +
                          (IF game'.players[1].body[1] = game.food THEN 1 ELSE 0)]_vars

\* C4 witness: the second call came 150 ms after the joining call and the body
\* has 3 cells.
C4_Witness ==
    /\ ncalls = 2
    /\ calls["a"].gap >= TickMs + TimeStep
    /\ game.tick = 2
    /\ game.players[1].dir = "RIGHT"
    /\ Len(game.players[1].body) = 3

\* The exact opposite of each of the four directions.
Opposite(d) ==
    CASE d = "UP" -> "DOWN"
      [] d = "DOWN" -> "UP"
      [] d = "LEFT" -> "RIGHT"
      [] d = "RIGHT" -> "LEFT"

Directions == {"UP", "DOWN", "LEFT", "RIGHT"}

\* The caller was in the game and alive when it called.
CallerAlive == Has(PrePlayers, last'.name) /\ Entry(PrePlayers, last'.name).alive

\* C5: when an alive player asks for the exact opposite of its direction, the
\* call leaves its direction as it was, and a world step run by that call
\* moves it along that direction (or marks it dead where it stands).
C5_OppositeIgnored ==
    [][IsCall /\ CallerAlive
              /\ Entry(PrePlayers, last'.name).dir \in Directions
              /\ last'.token = Opposite(Entry(PrePlayers, last'.name).dir)
         => LET p == Entry(PrePlayers, last'.name)
                q == Entry(game'.players, last'.name)
            IN  /\ last'.me.dir = p.dir
                /\ q.dir = p.dir
                /\ Stepped => \/ MovedOne(p, q)
                              \/ ~q.alive /\ q.body = p.body]_vars

\* C5 witness: a player going right asked for LEFT in a call that ran the world
\* step, and went one more cell to the right.
C5_Witness ==
    /\ last.advanced
    /\ last.token = "LEFT"
    /\ last.did = "refuse"
    /\ Entry(game.players, last.name).alive
    /\ Entry(game.players, last.name).dir = "RIGHT"
    /\ Entry(game.players, last.name).body[1].x = last.me.body[1].x + 1

\* C6 as claimed: a token that is none of UP, DOWN, LEFT, RIGHT leaves the
\* direction of the alive player that sent it as it was.
C6_AsClaimed ==
    [][IsCall /\ CallerAlive /\ last'.token \notin Directions
         => Entry(game'.players, last'.name).dir = Entry(PrePlayers, last'.name).dir]_vars

\* C7: in a world step, a player that is alive and whose next head cell is
\* outside [0,W) x [0,H) is not alive afterwards and its body is as before.
C7_WallKills ==
    [][IsCall /\ Stepped
         => \A i \in 1..Len(StepPlayers) :
               LET p == StepPlayers[i] IN
               p.alive /\ SeenLately(p) /\ OffBoard(Ahead(p.body[1], p.dir), BoardW, BoardH)
                  => /\ Has(game'.players, p.name)
                     /\ ~Entry(game'.players, p.name).alive
                     /\ Entry(game'.players, p.name).body = p.body]_vars

\* C7 witness: the caller, alive with its head in the last column and going
\* right, ran the world step and is dead.
C7_Witness ==
    /\ last.advanced
    /\ last.me.alive
    /\ last.me.dir = "RIGHT"
    /\ last.me.body[1].x = BoardW - 1
    /\ ~Entry(game.players, last.name).alive

\* math.random's range for the food: [1,W-2] x [1,H-2].
Interior(c, W, H) == c.x \in 1..(W - 2) /\ c.y \in 1..(H - 2)

\* Player p makes its move in the step: it is alive, seen lately, and its next
\* head cell is on the board and not on its own body.
Moves(p) ==
    /\ p.alive
    /\ SeenLately(p)
    /\ ~OffBoard(Ahead(p.body[1], p.dir), BoardW, BoardH)
    /\ ~OnOwnBody(Ahead(p.body[1], p.dir), p.body)

\* Player i is the first in join order to move onto the cell where the food
\* lies when the step starts.
EatsFirst(i) ==
    /\ Moves(StepPlayers[i])
    /\ Ahead(StepPlayers[i].body[1], StepPlayers[i].dir) = last'.food
    /\ \A j \in 1..(i - 1) :
          ~(Moves(StepPlayers[j])
            /\ Ahead(StepPlayers[j].body[1], StepPlayers[j].dir) = last'.food)

\* Another player's head lies on the body of q.
HeadOn(q, players) ==
    \E k \in 1..Len(players) :
        players[k].name # q.name /\ \E m \in 1..Len(q.body) : q.body[m] = players[k].body[1]

\* C8 as claimed: the player that moves onto the food in a world step has
\* exactly one more point and one more cell after it, and the food lies in the
\* interior range.
C8_AsClaimed ==
    [][IsCall /\ Stepped
         => \A i \in 1..Len(StepPlayers) :
               EatsFirst(i)
                  => LET p == StepPlayers[i]
                         q == Entry(game'.players, p.name)
                     IN  /\ q.score = p.score + 1
                         /\ Len(q.body) = Len(p.body) + 1
                         /\ Interior(game'.food, BoardW, BoardH)]_vars

\* C8 amended: that player has one more cell, the food is drawn again in the
\* interior range, and its score is at least one higher: exactly one higher
\* unless another player's head lies on its body after the step (the collision
\* pass of the same step then adds its points).
C8_FoodEaten ==
    [][IsCall /\ Stepped
         => \A i \in 1..Len(StepPlayers) :
               EatsFirst(i)
                  => LET p == StepPlayers[i]
                         q == Entry(game'.players, p.name)
                     IN  /\ q.score >= p.score + 1
                         /\ ~HeadOn(q, game'.players) => q.score = p.score + 1
                         /\ q.body = <<last'.food>> \o p.body
                         /\ Interior(game'.food, BoardW, BoardH)]_vars

\* C8 witness: in the world step just run, the first player moved onto the
\* food and grew to 4 cells, and the second ran into it: 2 points.
C8_Witness ==
    /\ last.advanced
    /\ Len(game.players) = 2
    /\ game.players[1].body[1] = last.food
    /\ game.players[1].alive
    /\ Len(game.players[1].body) = 4
    /\ game.players[1].score = 2
    /\ ~game.players[2].alive

\* C9: in a world step, a player whose last_seen is 50 or more ticks behind
\* the tick counter when the step starts is gone afterwards, and a player
\* seen less than 50 ticks ago stays; a call that runs no step removes nobody.
C9_Pruned ==
    [][IsCall
         => \A i \in 1..Len(StepPlayers) :
               LET p == StepPlayers[i] IN
               /\ Stepped /\ PreTick - p.last_seen >= 50 => ~Has(game'.players, p.name)
               /\ Stepped /\ PreTick - p.last_seen < 50 => Has(game'.players, p.name)
               /\ ~Stepped => Has(game'.players, p.name)]_vars

\* C9 witness: "a", last seen at tick 0, was kept by the step at tick 49 and is
\* gone after the step at tick 50, which "b" ran.
C9_Witness ==
    /\ last.advanced
    /\ last.name = "b"
    /\ game.tick = PruneAfter + 1
    /\ ~Has(game.players, "a")
    /\ Has(game.players, "b")

\* The bodies a respawn can give: 3 cells in a row, head at the right end,
\* the head drawn in [3,W-3] x [3,H-3].
FreshBody(body, W, H) ==
    /\ Len(body) = 3
    /\ body[1].x \in 3..(W - 3) /\ body[1].y \in 3..(H - 3)
    /\ body[2] = [x |-> body[1].x - 1, y |-> body[1].y]
    /\ body[3] = [x |-> body[1].x - 2, y |-> body[1].y]

\* 3 cells in a row, head at the right end.
Straight3(body) ==
    /\ Len(body) = 3
    /\ body[2] = [x |-> body[1].x - 1, y |-> body[1].y]
    /\ body[3] = [x |-> body[1].x - 2, y |-> body[1].y]

\* The caller was in the game, dead, and the call respawned it.
Respawned ==
    /\ last'.did = "respawn"
    /\ Has(PrePlayers, last'.name)
    /\ ~Entry(PrePlayers, last'.name).alive

\* A player earlier in join order than the named one grew in this step, so
\* the food was redrawn before the named player's turn in the move pass.
AteBefore(name) ==
    \E k \in 1..Len(game'.players) :
        /\ \A m \in 1..k : game'.players[m].name # name
        /\ Len(game'.players[k].body)
             = Len(Entry(PrePlayers, game'.players[k].name).body) + 1

\* C10 as claimed: the state returned by the respawning call of a dead player,
\* whether it ran the world step or not, has the player alive with a fresh
\* body of 3 cells and the score it had.
C10_AsClaimed ==
    [][IsCall /\ Respawned
         => LET q == Entry(game'.players, last'.name) IN
            /\ q.alive
            /\ Straight3(q.body)
            /\ q.score = Entry(PrePlayers, last'.name).score]_vars

\* C10 amended: the player update of that call makes the player alive with a
\* fresh body of 3 cells and the score it had. When the call does not take the
\* tick lock, that is the state returned. When it does, the world step runs on
\* the respawned player in the same call: the returned body is the fresh body
\* moved one cell to the right, 3 or 4 cells long: 4 cells and at least one
\* more point when it came upon the food as the food stood at its turn in the
\* move pass (the food of the stored state, or a food redrawn in this step
\* because a player earlier in join order ate). The player is dead again only
\* if its head lies on another player's body, and its score is not lower than
\* before.
C10_Respawn ==
    [][IsCall /\ Respawned
         => LET p == Entry(PrePlayers, last'.name)
                q == Entry(game'.players, last'.name)
            IN  /\ last'.me.alive
                /\ FreshBody(last'.me.body, BoardW, BoardH)
                /\ last'.me.score = p.score
                /\ ~Stepped => q = last'.me
                /\ Stepped => /\ MovedOne([last'.me EXCEPT !.dir = "RIGHT"], q)
                              /\ Len(q.body) \in {3, 4}
                              /\ q.score >= p.score
                              /\ Len(q.body) = 4 => q.score >= p.score + 1
                              /\ Len(q.body) = 4 => \/ q.body[1] = last'.food
                                                    \/ AteBefore(q.name)
                              /\ q.body[1] = last'.food /\ ~AteBefore(q.name)
                                    => Len(q.body) = 4
                              /\ ~q.alive => \E k \in 1..Len(game'.players) :
                                                /\ game'.players[k].name # q.name
                                                /\ \E m \in 1..Len(game'.players[k].body) :
                                                      game'.players[k].body[m] = q.body[1]]_vars

\* C10 witness: a dead player respawned in a call that ran the world step, and
\* is dead again in the state that call returned.
C10_Witness ==
    /\ last.advanced
    /\ last.did = "respawn"
    /\ last.me.alive
    /\ ~Entry(game.players, last.name).alive

\* ----------- SpecCollide: two snakes side by side, about to cross each other
CollideTokens == {"UP", "DOWN", "RIGHT"}

\* "a" joins going UP on the fresh store, "b" joins going RIGHT inside that
\* window, and "a" turns RIGHT in the call that runs the next world step: the
\* heads are at (4,2) and (4,3), whatever the food did.
SideBySide ==
    Replay(Replay(Replay({NoGame}, 0, "a", "UP", "0"), TickMs, "b", "RIGHT", "0"),
           0, "a", "RIGHT", "0")

InitCollide ==
    /\ game \in SideBySide
    /\ lock = LockTtl
    /\ sinceAdv = 0
    /\ last = NoCall
    /\ ncalls = 0
    /\ calls = NoHistory
    /\ pc = Playing
    /\ life = NoLife
    /\ fire = NoFire

CollideTick(pname, pdir) ==
    /\ ncalls < MaxCalls
    /\ ncalls' = ncalls + 1
    /\ Eval(BoardW, BoardH, pname, pdir, "0")
    /\ UNCHANGED calls

NextCollide ==
    \/ \E n \in Names, d \in CollideTokens : CollideTick(n, d)
    \/ Elapse

SpecCollide == InitCollide /\ [][NextCollide]_vars

\* The players the call returned, and a player's entry as it went into the
\* world step: the caller's after the update of the call, another's as stored.
Post == game'.players
Was(n) == IF n = last'.name THEN last'.me ELSE Entry(PrePlayers, n)

\* Player k came out of the move pass alive: it was alive and its body moved.
CameAlive(k) == Was(Post[k].name).alive /\ Post[k].body # Was(Post[k].name).body

\* The head of player k lies on a segment of the body of another player j.
HeadOnOther(k, j) ==
    /\ j # k
    /\ \E m \in 1..Len(Post[j].body) : Post[j].body[m] = Post[k].body[1]

Touches(k) == \E j \in 1..Len(Post) : HeadOnOther(k, j)

\* Player j is alive at the moment player k is checked: it came out of the
\* move pass alive, and its own check either comes later or found nothing.
AliveAtCheck(j, k) == CameAlive(j) /\ (j > k \/ ~Touches(j))

\* The checks of this step that credit player j.
Credits(j) ==
    {k \in 1..Len(Post) : CameAlive(k) /\ HeadOnOther(k, j) /\ AliveAtCheck(j, k)}

AteNow(k) == Len(Post[k].body) = Len(Was(Post[k].name).body) + 1

\* C11: in the collision pass of a world step, a player that came out of the
\* move pass alive is marked dead exactly when its head lies on a segment of
\* another player's body; the owner of that body gains one point exactly when
\* it is alive at the moment of that check, the players being checked in join
\* order; so a score grows by the food eaten plus the checks that credit it.
C11_CollisionPass ==
    [][IsCall /\ Stepped
         => \A k \in 1..Len(Post) :
              /\ CameAlive(k) => (Post[k].alive <=> ~Touches(k))
              /\ ~CameAlive(k) => ~Post[k].alive
              /\ Post[k].score = Was(Post[k].name).score
                                   + (IF AteNow(k) THEN 1 ELSE 0)
                                   + Cardinality(Credits(k))]_vars

\* C11 witness: a world step left a player dead with its head on the body of
\* the other player, who is alive and has the point for it.
C11_Witness ==
    /\ last.advanced
    /\ \E k, j \in 1..Len(game.players) :
          /\ k # j
          /\ ~game.players[k].alive
          /\ \E m \in 1..Len(game.players[j].body) :
                game.players[j].body[m] = game.players[k].body[1]
          /\ game.players[j].alive
          /\ game.players[j].score = 1
          /\ Len(game.players[j].body) = 3

\* Points player k gained in this step beyond the food it ate.
KillPoints(k) ==
    Post[k].score - Was(Post[k].name).score - (IF AteNow(k) THEN 1 ELSE 0)

\* Players k and j both came out of the move pass alive, each with its head
\* on the other's body.
Mutual(k, j) ==
    /\ k # j
    /\ CameAlive(k) /\ CameAlive(j)
    /\ HeadOnOther(k, j) /\ HeadOnOther(j, k)

\* C17 as claimed: when two players run into each other in one world step,
\* both are marked dead and each has a point off the other.
C17_AsClaimed ==
    [][IsCall /\ Stepped
         => \A k, j \in 1..Len(Post) :
              Mutual(k, j) => /\ ~Post[k].alive /\ ~Post[j].alive
                              /\ KillPoints(k) = 1 /\ KillPoints(j) = 1]_vars

\* C17 amended: when two players run into each other in one world step, both
\* are marked dead, and of the two only the one later in join order has a
\* point off the other: the earlier one is checked first and is dead by the
\* time the later one is checked.
C17_OnlyLaterScores ==
    [][IsCall /\ Stepped
         => \A k, j \in 1..Len(Post) :
              Mutual(k, j) /\ k < j
                 => /\ ~Post[k].alive /\ ~Post[j].alive
                    /\ KillPoints(k) = 0
                    /\ KillPoints(j) = 1]_vars

\* C17 witness: after a world step both players are dead, the head of each on
\* the body of the other; they went in with no points, and the one later in
\* join order has the only point.
C17_Witness ==
    /\ last.advanced
    /\ Len(game.players) = 2
    /\ ~game.players[1].alive /\ ~game.players[2].alive
    /\ game.players[1].body[1] = game.players[2].body[2]
    /\ game.players[2].body[1] = game.players[1].body[2]
    /\ game.players[1].score = 0
    /\ game.players[2].score = 1
    /\ Len(game.players[1].body) = 3 /\ Len(game.players[2].body) = 3

\* ------ SpecMalformed: the game key may be overwritten with an undecodable value
\* A value of KEYS[1] that cjson.decode rejects (any string that is not JSON).
Malformed == [malformed |-> TRUE]

\* if raw then state = cjson.decode(raw): decode raises on such a value, the
\* script stops there and EVAL returns the error.
Decodes(g) == g # Malformed

\* What is known of a call that ended in an error.
ScriptError(pname) == [NoCall EXCEPT !.name = pname, !.did = "error"]

MalformedTokens == {"UP", "RIGHT"}

\* One call of a client in its loop. When the script raises, nothing was
\* written; r.eval raises in the client, whose cleanup reads the key, fails to
\* parse it too, and deletes nothing.
MalformedTick(pname, pdir) ==
    /\ ncalls < MaxCalls
    /\ pc[pname] = "loop"
    /\ ncalls' = ncalls + 1
    /\ IF Decodes(game)
       THEN Eval(BoardW, BoardH, pname, pdir, "0")
       ELSE /\ last' = ScriptError(pname)
            /\ pc' = [pc EXCEPT ![pname] = "gone"]
            /\ UNCHANGED <<game, lock, sinceAdv, life, fire>>
    /\ UNCHANGED calls

\* Another client of the store SETs the game key to such a value.
Overwrite ==
    /\ game # Malformed
    /\ game' = Malformed
    /\ UNCHANGED <<lock, sinceAdv, last, ncalls, calls, pc, life, fire>>

NextMalformed ==
    \/ \E n \in Names, d \in MalformedTokens : MalformedTick(n, d)
    \/ Elapse
    \/ Overwrite

SpecMalformed == Init /\ [][NextMalformed]_vars

\* C12 as claimed: a call that finds a malformed value under the game key
\* ends without an error and stores a freshly seeded state: tick 0 before its
\* own world step, and no player but the caller.
C12_AsClaimed ==
    [][IsCall /\ game = Malformed
         => /\ last'.did # "error"
            /\ game' # Malformed
            /\ game'.tick <= 1
            /\ \A i \in 1..Len(game'.players) : game'.players[i].name = last'.name]_vars

\* ======================================================================
\* Game of Life of examples/game_of_life.py: one generation per EVAL of
\* LIFE_SCRIPT. A grid is the sequence of its N = W * H bytes, row after row;
\* string.char and string.byte carry the numbers 0 and 1 to bytes and back.
\* ======================================================================
RECURSIVE SumSeq(_)
SumSeq(q) == IF q = <<>> THEN 0 ELSE q[1] + SumSeq(Tail(q))

\* for i = 1, N: math.random(1, 4) == 1 gives 1, any other draw gives 0.
LifeSeeds(N) == [1..N -> {0, 1}]

\* if not raw or #raw ~= N then seed else read the bytes
LifeLoad(raw, N, seeds) == IF raw = Absent \/ Len(raw) # N THEN seeds ELSE {raw}

\* for dy = -1, 1 do for dx = -1, 1 do, without dx == 0 and dy == 0
NeighborOffsets ==
    <<<<-1, -1>>, <<0, -1>>, <<1, -1>>, <<-1, 0>>, <<1, 0>>, <<-1, 1>>, <<0, 1>>, <<1, 1>>>>

WrapNone(v, m) == IF v < 0 THEN 0 ELSE IF v >= m THEN m - 1 ELSE v

\* (x + dx) % W: Lua's % takes the sign of the divisor.
Wrap(v, m) == v % m

\* neighbors = neighbors + cur[ny * W + nx + 1], over the eight offsets
Neighbors(cur, x, y, W, H) ==
    SumSeq([k \in 1..Len(NeighborOffsets) |->
              cur[Wrap(y + NeighborOffsets[k][2], H) * W
                  + Wrap(x + NeighborOffsets[k][1], W) + 1]])

LifeRuleBirthOnTwo(alive, neighbors) ==
    IF alive = 1 /\ (neighbors = 2 \/ neighbors = 3) THEN 1
    ELSE IF alive = 0 /\ neighbors = 2 THEN 1
    ELSE 0

LifeRuleLonely(alive, neighbors) ==
    IF alive = 1 /\ neighbors = 2 THEN 1
    ELSE IF alive = 0 /\ neighbors = 3 THEN 1
    ELSE 0

\* Lines 61-67.
LifeRule(alive, neighbors) ==
    IF alive = 1 /\ (neighbors = 2 \/ neighbors = 3) THEN 1
    ELSE IF alive = 0 /\ neighbors = 3 THEN 1
    ELSE 0

\* Lines 46-69: nxt[idx] for idx = y * W + x + 1.
NextGen(cur, W, H) ==
    [idx \in 1..(W * H) |->
        LifeRule(cur[idx], Neighbors(cur, (idx - 1) % W, (idx - 1) \div W, W, H))]

\* for i = 1, N do pop = pop + nxt[i] end
Population(nxt) == SumSeq(nxt)

\* One EVAL of LIFE_SCRIPT with ARGV = (W, H) on the key's value raw: the grid
\* it loaded or seeded, the grid it SET and returned, and the count it returned.
LifeResults(raw, W, H, seeds) ==
    {[raw |-> NextGen(cur, W, H), w |-> W, h |-> H, cur |-> cur,
      s |-> NextGen(cur, W, H), pop |-> Population(NextGen(cur, W, H))] :
        cur \in LifeLoad(raw, W * H, seeds)}

SnakeIdle == UNCHANGED <<game, lock, sinceAdv, last, ncalls, calls, pc>>

\* ---------------- SpecLife: a client of a small universe, any seed
LifeSizes == {<<3, 3>>, <<4, 3>>}

\* What the key may still hold when a client of another size starts.
Leftover == {Absent, <<1>>, <<0, 1, 0, 0>>}

InitLife ==
    /\ game = NoGame
    /\ lock = 0
    /\ sinceAdv = TickMs
    /\ last = NoCall
    /\ ncalls = 0
    /\ calls = NoHistory
    /\ pc = Playing
    /\ fire = NoFire
    /\ \E z \in LifeSizes, r \in Leftover :
          life = [NoLife EXCEPT !.w = z[1], !.h = z[2], !.raw = r]

\* result = r.eval(LIFE_SCRIPT, 1, KEY, w, h)
LifeEval ==
    /\ life' \in LifeResults(life.raw, life.w, life.h, LifeSeeds(life.w * life.h))
    /\ SnakeIdle
    /\ UNCHANGED fire

\* r.delete(KEY): the client stops and a client of the same size starts.
LifeDelete ==
    /\ life.raw # Absent
    /\ life' = [NoLife EXCEPT !.w = life.w, !.h = life.h]
    /\ SnakeIdle
    /\ UNCHANGED fire

NextLife == LifeEval \/ LifeDelete

SpecLife == InitLife /\ [][NextLife]_vars

\* The script was called.
LifeCalled == life.s # <<>>

\* The cell (x, y) of a grid of width W.
At(g, x, y, W) == g[y * W + x + 1]

\* How many of the eight offsets around (x, y) lead, with both coordinates
\* taken modulo the size, to a live cell of the grid g.
LiveAround(g, x, y, W, H) ==
    Cardinality({d \in ((-1..1) \X (-1..1)) \ {<<0, 0>>} :
                   At(g, (x + d[1]) % W, (y + d[2]) % H, W) = 1})

\* C13: the grid a call returns has, for every cell, 1 exactly when the cell
\* of the loaded grid was alive with 2 or 3 live neighbours among its 8
\* modulo-wrapped neighbours, or dead with exactly 3, and 0 otherwise; the
\* population it returns is the number of 1-bytes of the returned grid; the
\* returned grid is the one it stored.
C13_LifeStep ==
    LifeCalled =>
        /\ Len(life.s) = life.w * life.h
        /\ \A x \in 0..(life.w - 1), y \in 0..(life.h - 1) :
              LET was == At(life.cur, x, y, life.w)
                  n == LiveAround(life.cur, x, y, life.w, life.h)
                  lives == \/ (was = 1 /\ n \in {2, 3})
                           \/ (was = 0 /\ n = 3)
              IN  At(life.s, x, y, life.w) = (IF lives THEN 1 ELSE 0)
        /\ life.pop = Cardinality({i \in 1..Len(life.s) : life.s[i] = 1})
        /\ life.raw = life.s

\* C13 witness: on the 4 x 3 grid the loaded grid had its last column alive
\* and nothing else; the call returned every cell alive but those of the
\* column before the last, the first column born across the wrapped edge, and
\* a population of 9.
C13_Witness ==
    /\ LifeCalled
    /\ life.w = 4 /\ life.h = 3
    /\ \A x \in 0..3, y \in 0..2 : At(life.cur, x, y, 4) = (IF x = 3 THEN 1 ELSE 0)
    /\ \A y \in 0..2 : At(life.s, 0, y, 4) = 1
    /\ life.pop = 9

\* ------- SpecBlock: universes of side 5 and more, seeded with one square block
BlockSides == 5..MaxSide

\* The grid whose live cells are the square of side k with corner (x0, y0).
BlockGrid(W, H, x0, y0, k) ==
    [idx \in 1..(W * H) |->
        IF /\ (idx - 1) % W \in x0..(x0 + k - 1)
           /\ (idx - 1) \div W \in y0..(y0 + k - 1)
        THEN 1 ELSE 0]

\* The draws of the seed that give one square block of side 1, 2 or 3 that
\* touches no edge of the grid, and nothing else.
BlockSeeds(W, H) ==
    {BlockGrid(W, H, x0, y0, k) :
        <<x0, y0, k>> \in {t \in (1..(W - 2)) \X (1..(H - 2)) \X (1..3) :
                             t[1] + t[3] - 1 <= W - 2 /\ t[2] + t[3] - 1 <= H - 2}}

InitBlock ==
    /\ game = NoGame
    /\ lock = 0
    /\ sinceAdv = TickMs
    /\ last = NoCall
    /\ ncalls = 0
    /\ calls = NoHistory
    /\ pc = Playing
    /\ fire = NoFire
    /\ \E W \in BlockSides, H \in BlockSides :
          life = [NoLife EXCEPT !.w = W, !.h = H]

BlockEval ==
    /\ life' \in LifeResults(life.raw, life.w, life.h, BlockSeeds(life.w, life.h))
    /\ SnakeIdle
    /\ UNCHANGED fire

NextBlock == BlockEval \/ LifeDelete

SpecBlock == InitBlock /\ [][NextBlock]_vars

\* The loaded grid is one square block of side k off the edges, all else dead.
IsBlock(k) ==
    /\ LifeCalled
    /\ \E x0 \in 1..(life.w - 1 - k), y0 \in 1..(life.h - 1 - k) :
          life.cur = BlockGrid(life.w, life.h, x0, y0, k)

\* C14 as claimed: a block of 3 x 3 live cells in the interior of a grid of
\* 5 x 5 or more, all other cells dead, is the same after one step.
C14_AsClaimed == IsBlock(3) => life.s = life.cur

\* C14 amended: a block of 2 x 2 live cells in the interior of a grid of
\* 5 x 5 or more, all other cells dead, is the same after one step.
C14_BlockStable == IsBlock(2) => life.s = life.cur

\* C14 witness: a call stepped a 5 x 5 grid that held the 2 x 2 block with
\* corner (1, 1), and returned four live cells.
C14_Witness ==
    /\ LifeCalled
    /\ life.w = 5 /\ life.h = 5
    /\ life.cur = BlockGrid(5, 5, 1, 1, 2)
    /\ life.pop = 4

\* ======================================================================
\* DOOM fire of examples/doom_fire.py: one frame per EVAL of FIRE_SCRIPT. A
\* grid is the sequence of its N = W * H bytes, row after row, the last row
\* the bottom; string.char and string.byte carry 0..255 to bytes and back.
\* ======================================================================
\* for i = 1, N do px[i] = 0 end; for x = 1, W do px[(H - 1) * W + x] = 36 end
FireSeedDark(W, H) == [i \in 1..(W * H) |-> 0]

FireSeed(W, H) == [i \in 1..(W * H) |-> IF i > (H - 1) * W THEN MaxIntensity ELSE 0]

\* if not raw or #raw ~= N then seed else read the bytes
FireLoad(raw, W, H) == IF raw = Absent \/ Len(raw) # W * H THEN FireSeed(W, H) ELSE raw

FireOrderBottomUp(W, H) ==
    [k \in 1..(W * (H - 1)) |-> <<((k - 1) \div (H - 1)) + 1, H - ((k - 1) % (H - 1))>>]

\* for x = 1, W do for y = 2, H do: the sources <<x, y>> in the order of the loops
FireOrder(W, H) ==
    [k \in 1..(W * (H - 1)) |-> <<((k - 1) \div (H - 1)) + 1, ((k - 1) % (H - 1)) + 2>>]

\* math.max(1, math.min(W, x - r + 1))
Drift(x, r, W) == Max(1, Min(W, x - r + 1))

DecayedUp(p, r) == p + (r % 2)

\* local v = p - (r % 2); if v < 0 then v = 0 end
Decayed(p, r) == IF p - (r % 2) < 0 THEN 0 ELSE p - (r % 2)

\* The draws of one visit: math.random(0, 3) when the source burns, none (-1)
\* when it is 0.
FireDraws(p) == IF p = 0 THEN {-1} ELSE 0..3

\* Lines 82-93 for the source <<x, y>> and the draw r: what is written where.
Spread(px, x, y, r, W) ==
    LET src == (y - 1) * W + x
        pv == px[src]
    IN  IF pv = 0
        THEN [x |-> x, y |-> y, p |-> pv, r |-> r, dst |-> src - W, v |-> 0]
        ELSE [x |-> x, y |-> y, p |-> pv, r |-> r,
              dst |-> (y - 2) * W + Drift(x, r, W), v |-> Decayed(pv, r)]

\* px[dst] = v
Written(px, wr) == [i \in 1..Len(px) |-> IF i = wr.dst THEN wr.v ELSE px[i]]

\* The k-th visit of the loops with the draw r.
Visit(px, k, r, W, H) == Spread(px, FireOrder(W, H)[k][1], FireOrder(W, H)[k][2], r, W)

\* The value of the source of the k-th visit.
SourceValue(px, k, W, H) == px[(FireOrder(W, H)[k][2] - 1) * W + FireOrder(W, H)[k][1]]

RECURSIVE FirePass(_, _, _, _, _)
\* Lines 80-95 from the k-th visit on, px changed in place: the outcomes over
\* the draws, each the grid at the end and the writes in the order made.
FirePass(px, log, k, W, H) ==
    IF k > W * (H - 1) THEN {[px |-> px, log |-> log]}
    ELSE UNION {FirePass(Written(px, Visit(px, k, r, W, H)),
                         Append(log, Visit(px, k, r, W, H)), k + 1, W, H) :
                  r \in FireDraws(SourceValue(px, k, W, H))}

\* One EVAL of FIRE_SCRIPT with ARGV = (W, H) on the key's value raw.
FireResults(raw, W, H, n) ==
    {[raw |-> o.px, w |-> W, h |-> H, cur |-> FireLoad(raw, W, H), log |-> o.log,
      frames |-> n + 1] :
        o \in FirePass(FireLoad(raw, W, H), <<>>, 1, W, H)}

\* ---------------------------- SpecFire: a client of a small fire
FireSizes == {<<2, 3>>, <<3, 2>>}

\* What the key may still hold when a client of another size starts.
FireLeftover == {Absent, <<36>>, <<0, 0, 36, 36>>}

InitFire ==
    /\ game = NoGame
    /\ lock = 0
    /\ sinceAdv = TickMs
    /\ last = NoCall
    /\ ncalls = 0
    /\ calls = NoHistory
    /\ pc = Playing
    /\ life = NoLife
    /\ \E z \in FireSizes, r \in FireLeftover :
          fire = [NoFire EXCEPT !.w = z[1], !.h = z[2], !.raw = r]

\* data = r.eval(FIRE_SCRIPT, 1, KEY, w, h)
FireEval ==
    /\ fire.frames < MaxFrames
    /\ fire' \in FireResults(fire.raw, fire.w, fire.h, fire.frames)
    /\ SnakeIdle
    /\ UNCHANGED life

\* r.delete(KEY): the client stops and a client of the same size starts.
FireDelete ==
    /\ fire.raw # Absent
    /\ fire' = [NoFire EXCEPT !.w = fire.w, !.h = fire.h]
    /\ SnakeIdle
    /\ UNCHANGED life

NextFire == FireEval \/ FireDelete

SpecFire == InitFire /\ [][NextFire]_vars

\* The script was called.
FireCalled == fire.log # <<>>

RowOf(i, W) == ((i - 1) \div W) + 1
ColOf(i, W) == ((i - 1) % W) + 1

SetMax(S) == CHOOSE m \in S : \A n \in S : n <= m

\* A source in column x can be carried to column c by one of the four drifts.
CanFeed(x, c, W) == \E r \in 0..3 : Max(1, Min(W, x - r + 1)) = c

\* The greatest intensity, in the grid g, of the cells of the row below cell i
\* that can feed it.
FeedMax(g, i, W) ==
    SetMax({g[RowOf(i, W) * W + x] : x \in {z \in 1..W : CanFeed(z, ColOf(i, W), W)}})

\* The value of cell i after the first n writes of the pass.
ValueAfter(i, n) ==
    IF \E k \in 1..n : fire.log[k].dst = i
    THEN fire.log[SetMax({k \in 1..n : fire.log[k].dst = i})].v
    ELSE fire.cur[i]

\* C15 as claimed: after a step no cell above the bottom row is brighter than
\* the brightest of the cells of the row below that can feed it, whether
\* these are taken as they were before the step or as they are after it, and
\* no cell is negative.
C15_AsClaimed ==
    FireCalled =>
        /\ \A i \in 1..(fire.w * (fire.h - 1)) :
              fire.raw[i] <= Max(FeedMax(fire.cur, i, fire.w), FeedMax(fire.raw, i, fire.w))
        /\ \A i \in 1..Len(fire.raw) : fire.raw[i] >= 0

\* C15 amended: every write of the pass puts, in the row above its source and
\* in a column the drift can reach, the value the source held when it was
\* read or that value less one, never less than 0; the value read is the one
\* the latest earlier write of the same pass left in the source, or the one of
\* before the step when there was none. After the step a cell holds what the
\* last write to it put there, or what it held before when nothing was written
\* to it; so no cell is negative and none is brighter than the brightest cell
\* of the grid before the step.
C15_Decay ==
    FireCalled =>
        /\ \A k \in 1..Len(fire.log) :
              LET wr == fire.log[k]
                  src == (wr.y - 1) * fire.w + wr.x
              IN  /\ wr.p = ValueAfter(src, k - 1)
                  /\ wr.v >= 0 /\ wr.v <= wr.p /\ wr.v >= wr.p - 1
                  /\ RowOf(wr.dst, fire.w) = wr.y - 1
                  /\ CanFeed(wr.x, ColOf(wr.dst, fire.w), fire.w)
        /\ \A i \in 1..Len(fire.raw) :
              /\ fire.raw[i] = ValueAfter(i, Len(fire.log))
              /\ fire.raw[i] >= 0
              /\ fire.raw[i] <= SetMax({fire.cur[j] : j \in 1..Len(fire.cur)})

\* C15 witness: the first frame of the 2 x 3 fire lit the top right cell at
\* full intensity, the row below it being dark before the step: the source in
\* the middle row was lit earlier in the same pass.
C15_Witness ==
    /\ FireCalled
    /\ fire.w = 2 /\ fire.h = 3
    /\ fire.cur = <<0, 0, 0, 0, 36, 36>>
    /\ fire.raw[2] = 36

\* C16: a call that finds the key absent or of another length starts from the
\* grid with the bottom row at 36 and every other cell at 0; after every call
\* the bottom row is at 36 and every cell is in 0..36, and no write of the
\* pass lands in the bottom row.
C16_FuelRow ==
    [][fire'.frames = fire.frames + 1
         => LET W == fire.w
                H == fire.h
            IN  /\ (fire.raw = Absent \/ Len(fire.raw) # W * H)
                      => fire'.cur = [i \in 1..(W * H) |->
                                        IF RowOf(i, W) = H THEN MaxIntensity ELSE 0]
                /\ \A i \in 1..(W * H) :
                      /\ fire'.raw[i] \in 0..MaxIntensity
                      /\ RowOf(i, W) = H => fire'.raw[i] = MaxIntensity
                /\ \A k \in 1..Len(fire'.log) : RowOf(fire'.log[k].dst, W) < H]_vars

\* C16 witness: after two frames of the 2 x 3 fire the fuel row is at 36 and
\* the top left cell has decayed twice.
C16_Witness ==
    /\ fire.frames = 2
    /\ fire.w = 2 /\ fire.h = 3
    /\ fire.raw[5] = 36 /\ fire.raw[6] = 36
    /\ fire.raw[1] = 34

\* The sources of a W x H fire, column after column, in each column from the
\* second row from the top down to the bottom row, or from the bottom row up.
TopDown(W, H) ==
    [k \in 1..(W * (H - 1)) |-> <<((k - 1) \div (H - 1)) + 1, ((k - 1) % (H - 1)) + 2>>]
BottomUp(W, H) ==
    [k \in 1..(W * (H - 1)) |-> <<((k - 1) \div (H - 1)) + 1, H - ((k - 1) % (H - 1))>>]

\* One visit of the reference step: the source <<x, y>> with the draw r.
RefVisit(g, x, y, r, W) ==
    [i \in 1..Len(g) |->
        IF g[(y - 1) * W + x] = 0
        THEN (IF i = (y - 2) * W + x THEN 0 ELSE g[i])
        ELSE (IF i = (y - 2) * W + Max(1, Min(W, x - r + 1))
              THEN Max(0, g[(y - 1) * W + x] - (r % 2))
              ELSE g[i])]

RECURSIVE RefPass(_, _, _, _, _)
\* The reference step: the sources visited in the given order, each with the
\* draw the table d gives it.
RefPass(g, order, k, d, W) ==
    IF k > Len(order) THEN g
    ELSE RefPass(RefVisit(g, order[k][1], order[k][2], d[order[k]], W), order, k + 1, d, W)

\* The tables of draws, one draw for every source, that give each source the
\* script drew for the draw it made.
SameDraws ==
    {d \in [(1..fire.w) \X (2..fire.h) -> 0..3] :
        \A k \in 1..Len(fire.log) :
            fire.log[k].r >= 0 => d[<<fire.log[k].x, fire.log[k].y>>] = fire.log[k].r}

\* C18 as claimed: the grid a call stores is the one of a reference step
\* that visits the rows of each column from the bottom up, for the same draws
\* (and some draw for each source the script made none for).
C18_AsClaimed ==
    FireCalled =>
        \E d \in SameDraws :
            \A i \in 1..Len(fire.raw) :
                RefPass(fire.cur, BottomUp(fire.w, fire.h), 1, d, fire.w)[i] = fire.raw[i]

\* C18 amended: the grid a call stores is the one of a reference step that
\* visits, column after column from the left, the sources from the second
\* row from the top down to the bottom row, each writing into the row above
\* it, for the same draws.
C18_TopDown ==
    FireCalled =>
        \A d \in SameDraws :
            \A i \in 1..Len(fire.raw) :
                RefPass(fire.cur, TopDown(fire.w, fire.h), 1, d, fire.w)[i] = fire.raw[i]

\* C18 witness: the first frame of the 2 x 3 fire lit the middle row and left
\* the top row dark: the sources of the middle row were read before the
\* bottom row was carried up into them.
C18_Witness ==
    /\ FireCalled
    /\ fire.cur = <<0, 0, 0, 0, 36, 36>>
    /\ fire.raw = <<0, 0, 35, 35, 36, 36>>

\* C19 as claimed: whatever valid directions the players asked for since the
\* last world step, no alive player's head moves, on the next world step, into
\* the second segment of its own body.
C19_AsClaimed ==
    [][IsCall /\ Stepped
         => \A i \in 1..Len(StepPlayers) :
              StepPlayers[i].alive
                 => Ahead(StepPlayers[i].body[1], StepPlayers[i].dir)
                      # StepPlayers[i].body[2]]_vars

\* ---------------------------------------------------------------------------
\* Leaving the game.  run() leaves its loop on the key q and its finally block
\* reads the game key, and deletes both keys when it saw no player but its
\* own.  The read and the delete are two commands of the client, so calls of
\* other clients can run between them.  pc[n] is the position of client n:
\* "loop", "cleanup" (before the GET), "delete" (before the DELETE), "gone".
\* ---------------------------------------------------------------------------

QuitTokens == {"UP", "RIGHT"}

\* One pass of the loop of a client that is still playing.
QuitTick(pname, pdir) ==
    /\ ncalls < MaxCalls
    /\ pc[pname] = "loop"
    /\ ncalls' = ncalls + 1
    /\ Eval(BoardW, BoardH, pname, pdir, "0")
    /\ UNCHANGED calls

\* The key q breaks the loop.
Quit(pname) ==
    /\ pc[pname] = "loop"
    /\ pc' = [pc EXCEPT ![pname] = "cleanup"]
    /\ UNCHANGED <<game, lock, sinceAdv, last, ncalls, calls, life, fire>>

\* The players other than pname in the value the GET returned.
Remaining(g, pname) ==
    IF g = NoGame
    THEN {}
    ELSE {i \in 1..Len(g.players) : g.players[i].name # pname}

\* raw = r.get(GAME_KEY) and the test of remaining.
CleanupGet(pname) ==
    /\ pc[pname] = "cleanup"
    /\ pc' = [pc EXCEPT ![pname] =
                 IF game # NoGame /\ Remaining(game, pname) = {}
                 THEN "delete" ELSE "gone"]
    /\ UNCHANGED <<game, lock, sinceAdv, last, ncalls, calls, life, fire>>

\* r.delete(GAME_KEY, TICK_KEY).
CleanupDelete(pname) ==
    /\ pc[pname] = "delete"
    /\ game' = NoGame
    /\ lock' = 0
    /\ pc' = [pc EXCEPT ![pname] = "gone"]
    /\ UNCHANGED <<sinceAdv, last, ncalls, calls, life, fire>>

NextQuit ==
    \/ \E n \in Names, d \in QuitTokens : QuitTick(n, d)
    \/ Elapse
    \/ \E n \in Names : Quit(n)
    \/ \E n \in Names : CleanupGet(n)
    \/ \E n \in Names : CleanupDelete(n)

SpecQuit == Init /\ [][NextQuit]_vars

\* C20 as claimed: whenever a leaving client deletes the keys, the game state
\* holds no player other than that client at the moment of the deletion, so
\* no player that joined before the delete is wiped out by it.
C20_AsClaimed ==
    [][\A n \in Names :
          pc[n] = "delete" /\ pc'[n] = "gone"
             => Remaining(game, n) = {}]_vars

====
